---- MODULE Spec2Model ----
(***************************************************************************)
(* Model of src/app.py: the Streamlit dashboard script that loads the two  *)
(* sheets of challenge.xlsx, runs hitung_aging and hitung_profit over the  *)
(* project table and builds the aging summary, the per-project profit      *)
(* summary, the month filter and the Excel export.                         *)
(*                                                                         *)
(* Representation                                                          *)
(*  - A DataFrame is a sequence of rows; a row is a record whose fields    *)
(*    are the columns ("Date Register" is Date_Register, "Profit %" is     *)
(*    Profit_Pct).  The columns Sales Name and Customer are never read by  *)
(*    the script and are left out.                                         *)
(*  - A timestamp is a whole number of hours since 2024-01-01 00:00.       *)
(*  - A float is an exact rational n/d in lowest terms, or one of the      *)
(*    IEEE specials NaN, +inf, -inf.  Binary rounding is not modelled      *)
(*    (in binary64, 111 / (1 + 0.11) is 99.99999999999999).                *)
(*  - The labels "≤30 Hari" and "31–90 Hari" of the source are written   *)
(*    "<=30 Hari" and "31-90 Hari": strings here are ASCII.                *)
(***************************************************************************)
EXTENDS Integers, Sequences, FiniteSets, TLC

VARIABLES
    pc,             \* position of the script run
    file_exists,    \* os.path.exists(DATA_FILE)
    sheet_detail,   \* sheet "Detail Pipeline" of DATA_FILE
    sheet_order,    \* sheet "Order Philips" of DATA_FILE
    clock,          \* the wall clock, read by pd.Timestamp.today()
    detail_df,      \* module variable detail_df
    order_df,       \* module variable order_df
    aging_summary,  \* module variable aging_summary
    profit_summary, \* module variable profit_summary
    valid_months,   \* module variable valid_months
    bulan_terpilih, \* the month chosen in the selectbox
    df_bulan,       \* module variable df_bulan
    messages,       \* st.error / st.warning texts shown
    exported        \* contents of dashboard_export.xlsx

vars == <<pc, file_exists, sheet_detail, sheet_order, clock, detail_df, order_df,
          aging_summary, profit_summary, valid_months, bulan_terpilih, df_bulan,
          messages, exported>>

\* Bounds of the model: rows of the project sheet, rows of the cost sheet.
MaxRows == 2
MaxOrders == 2

HoursPerDay == 24

----------------------------------------------------------------------------
\* Floats: rationals and the IEEE specials.

Abs(x) == IF x < 0 THEN -x ELSE x

RECURSIVE Gcd(_, _)
Gcd(a, b) == IF b = 0 THEN a ELSE Gcd(b, a % b)

NaN == [k |-> "nan", n |-> 0, d |-> 1]
PInf == [k |-> "inf", n |-> 1, d |-> 1]
NInf == [k |-> "inf", n |-> -1, d |-> 1]

Num(n, d) ==
    LET s == IF d < 0 THEN -1 ELSE 1
        g == Gcd(Abs(n), Abs(d))
    IN  [k |-> "num", n |-> (s * n) \div g, d |-> (s * d) \div g]

FInt(n) == Num(n, 1)

isna(x) == x.k = "nan"
notna(x) == ~isna(x)
IsNum(x) == x.k = "num"
Sign(x) == IF x.n > 0 THEN 1 ELSE IF x.n < 0 THEN -1 ELSE 0
Inf(s) == IF s > 0 THEN PInf ELSE NInf

FNeg(x) == IF isna(x) THEN NaN ELSE [x EXCEPT !.n = -x.n]

FAdd(x, y) ==
    IF isna(x) \/ isna(y) THEN NaN
    ELSE IF IsNum(x) /\ IsNum(y) THEN Num(x.n * y.d + y.n * x.d, x.d * y.d)
    ELSE IF IsNum(x) THEN y
    ELSE IF IsNum(y) THEN x
    ELSE IF x.n = y.n THEN x ELSE NaN

FSub(x, y) == FAdd(x, FNeg(y))

FMul(x, y) ==
    IF isna(x) \/ isna(y) THEN NaN
    ELSE IF IsNum(x) /\ IsNum(y) THEN Num(x.n * y.n, x.d * y.d)
    ELSE IF Sign(x) * Sign(y) = 0 THEN NaN
    ELSE Inf(Sign(x) * Sign(y))

\* Division of float columns: a zero divisor gives +-inf, 0/0 gives NaN.
FDiv(x, y) ==
    IF isna(x) \/ isna(y) THEN NaN
    ELSE IF IsNum(x) /\ IsNum(y) THEN
        IF y.n # 0 THEN Num(x.n * y.d, x.d * y.n)
        ELSE IF x.n = 0 THEN NaN ELSE Inf(Sign(x))
    ELSE IF IsNum(y) THEN Inf(Sign(x) * (IF y.n < 0 THEN -1 ELSE 1))
    ELSE IF IsNum(x) THEN FInt(0)
    ELSE NaN

\* x <= c for an integer c; False for NaN, as a float comparison is.
FLe(x, c) ==
    CASE isna(x) -> FALSE
      [] IsNum(x) -> x.n <= c * x.d
      [] OTHER -> x.n < 0

----------------------------------------------------------------------------
\* Cells of the sheets and datetime values.

Ts(h) == [k |-> "ts", v |-> h, s |-> ""]
Text(s) == [k |-> "str", v |-> 0, s |-> s]
Empty == [k |-> "nan", v |-> 0, s |-> ""]
NaT == [k |-> "nat", v |-> 0, s |-> ""]

\* The date strings dateutil understands, among the texts of the sheets.
ParseText(s) ==
    CASE s = "2024-01-01" -> Ts(0)
      [] OTHER -> NaT

\* pd.to_datetime(cell, errors='coerce')
to_datetime(c) ==
    CASE c.k = "ts" -> c
      [] c.k = "str" -> ParseText(c.s)
      [] OTHER -> NaT

dt_notna(t) == t.k = "ts"

\* Timedelta.days: the days field of the normalised timedelta, the floor.
dt_days_trunc(h) == IF h >= 0 THEN h \div HoursPerDay ELSE -((-h) \div HoursPerDay)
dt_days(h) == h \div HoursPerDay

\* (a - b).dt.days of two datetime values, NaN when either is NaT.
DiffDays(a, b) ==
    IF dt_notna(a) /\ dt_notna(b) THEN FInt(dt_days(a.v - b.v)) ELSE NaN

----------------------------------------------------------------------------
\* hitung_aging

\* np.where(closed.notna(), (closed - reg).dt.days, (today - reg).dt.days)
AgingDays_today(reg, closed, today) == DiffDays(today, reg)
AgingDays(reg, closed, today) ==
    IF dt_notna(closed) THEN DiffDays(closed, reg) ELSE DiffDays(today, reg)

categorize_strict(days) ==
    IF isna(days) THEN "Unknown"
    ELSE IF FLe(days, 29) THEN "<=30 Hari"
    ELSE IF FLe(days, 90) THEN "31-90 Hari"
    ELSE ">90 Hari"
categorize(days) ==
    IF isna(days) THEN "Unknown"
    ELSE IF FLe(days, 30) THEN "<=30 Hari"
    ELSE IF FLe(days, 90) THEN "31-90 Hari"
    ELSE ">90 Hari"

\* One row of hitung_aging(df): both date columns are replaced by their
\* parsed values, Aging Days and Aging Category are added.
AgingRow(r, today) ==
    LET reg == to_datetime(r.Date_Register)
        closed == to_datetime(r.Bulan_Closed)
        days == AgingDays(reg, closed, today)
    IN  [Date_Register |-> reg,
         Bulan_Closed |-> closed,
         Project_Name |-> r.Project_Name,
         Type_Product |-> r.Type_Product,
         QTY |-> r.QTY,
         Harga_Satuan |-> r.Harga_Satuan,
         Aging_Days |-> days,
         Aging_Category |-> categorize(days)]

hitung_aging(df, today) == [i \in DOMAIN df |-> AgingRow(df[i], today)]

----------------------------------------------------------------------------
\* hitung_profit

PAJAK_RATE == Num(11, 100)

cell_notna(c) == c.k # "nan"

\* order_df.dropna(subset=['Nama Produk', 'Harga Perolehan'])
dropna(df) ==
    SelectSeq(df, LAMBDA o: cell_notna(o.Nama_Produk) /\ notna(o.Harga_Perolehan))

\* order_df.drop_duplicates(subset=['Nama Produk'], keep='first')
drop_duplicates_none(df) == df
drop_duplicates(df) ==
    LET keep(i) == \A j \in 1..(i - 1) : df[j].Nama_Produk # df[i].Nama_Produk
        F[i \in 0..Len(df)] ==
            IF i = 0 THEN <<>>
            ELSE IF keep(i) THEN Append(F[i - 1], df[i]) ELSE F[i - 1]
    IN  F[Len(df)]

\* The rows of a left row joined with the cost rows of the same key; a row
\* without a match is kept, with both cost columns NaN.
Joined(l, o) ==
    [Date_Register |-> l.Date_Register,
     Bulan_Closed |-> l.Bulan_Closed,
     Project_Name |-> l.Project_Name,
     Type_Product |-> l.Type_Product,
     QTY |-> l.QTY,
     Harga_Satuan |-> l.Harga_Satuan,
     Aging_Days |-> l.Aging_Days,
     Aging_Category |-> l.Aging_Category,
     Nama_Produk |-> o.Nama_Produk,
     Harga_Perolehan |-> o.Harga_Perolehan]

NoMatch == [Nama_Produk |-> Empty, Harga_Perolehan |-> NaN]

Matches(l, right) == SelectSeq(right, LAMBDA o: o.Nama_Produk = l.Type_Product)

LeftRows_inner(l, right) ==
    [j \in DOMAIN Matches(l, right) |-> Joined(l, Matches(l, right)[j])]
LeftRows(l, right) ==
    LET ms == Matches(l, right)
    IN  IF ms = <<>> THEN <<Joined(l, NoMatch)>>
        ELSE [j \in DOMAIN ms |-> Joined(l, ms[j])]

\* df.merge(order_df[[...]], left_on='Type Product', right_on='Nama Produk',
\* how='left'): the left order is kept.
merge(left, right) ==
    LET F[i \in 0..Len(left)] ==
            IF i = 0 THEN <<>> ELSE F[i - 1] \o LeftRows(left[i], right)
    IN  F[Len(left)]

\* df['Harga Satuan'] / (1 + PAJAK_RATE)
HargaNetto_times(price) == FMul(price, FSub(FInt(1), PAJAK_RATE))
HargaNetto(price) == FDiv(price, FAdd(FInt(1), PAJAK_RATE))

\* Calendar of Period('M'): days since 2024-01-01 to <<year, month>>.
IsLeap(y) == (y % 4 = 0 /\ y % 100 # 0) \/ y % 400 = 0

DaysInMonth(y, m) ==
    CASE m \in {4, 6, 9, 11} -> 30
      [] m = 2 -> IF IsLeap(y) THEN 29 ELSE 28
      [] OTHER -> 31

RECURSIVE YearMonth(_, _, _)
YearMonth(y, m, d) ==
    IF d < DaysInMonth(y, m) THEN <<y, m>>
    ELSE IF m = 12 THEN YearMonth(y + 1, 1, d - DaysInMonth(y, m))
    ELSE YearMonth(y, m + 1, d - DaysInMonth(y, m))

\* dt.to_period('M').astype(str): "YYYY-MM", and "NaT" for NaT.
PeriodStr(t) ==
    IF dt_notna(t) THEN
        LET ym == YearMonth(2024, 1, t.v \div HoursPerDay)
        IN  ToString(ym[1]) \o "-" \o
            (IF ym[2] < 10 THEN "0" ELSE "") \o ToString(ym[2])
    ELSE "NaT"

ProfitRow(m) ==
    LET netto == HargaNetto(m.Harga_Satuan)
        jual == FMul(netto, m.QTY)
        perolehan == FMul(m.Harga_Perolehan, m.QTY)
        profit == FSub(jual, perolehan)
    IN  [Date_Register |-> m.Date_Register,
         Bulan_Closed |-> m.Bulan_Closed,
         Project_Name |-> m.Project_Name,
         Type_Product |-> m.Type_Product,
         QTY |-> m.QTY,
         Harga_Satuan |-> m.Harga_Satuan,
         Aging_Days |-> m.Aging_Days,
         Aging_Category |-> m.Aging_Category,
         Nama_Produk |-> m.Nama_Produk,
         Harga_Perolehan |-> m.Harga_Perolehan,
         Harga_Netto |-> netto,
         Total_Jual_Netto |-> jual,
         Total_Perolehan |-> perolehan,
         Profit_Value |-> profit,
         Profit_Pct |-> FMul(FDiv(profit, jual), FInt(100)),
         Bulan_Transaksi |-> PeriodStr(to_datetime(m.Date_Register))]

\* The cleaned cost table hitung_profit joins against.
CostLookup_dedupe_first(orders) == dropna(drop_duplicates(orders))
CostLookup(orders) == drop_duplicates(dropna(orders))

hitung_profit(df, orders) ==
    LET merged == merge(df, CostLookup(orders))
    IN  [i \in DOMAIN merged |-> ProfitRow(merged[i])]

----------------------------------------------------------------------------
\* The summaries of the script

\* detail_df['Aging Category'].value_counts(): the categories present, each
\* with the number of its rows.
value_counts(df) ==
    [c \in {df[i].Aging_Category : i \in DOMAIN df} |->
        Cardinality({i \in DOMAIN df : df[i].Aging_Category = c})]

\* Series.sum() of a group: NaN entries are skipped, an empty sum is 0.
sum(df, col, p) ==
    LET F[i \in 0..Len(df)] ==
            IF i = 0 THEN FInt(0)
            ELSE IF df[i].Project_Name = p /\ notna(df[i][col])
                 THEN FAdd(F[i - 1], df[i][col])
            ELSE F[i - 1]
    IN  F[Len(df)]

\* detail_df.groupby('Project Name').agg({...: 'sum'}) and its Profit %.
groupby_sum(df) ==
    [p \in {df[i].Project_Name : i \in DOMAIN df} |->
        LET jual == sum(df, "Total_Jual_Netto", p)
            profit == sum(df, "Profit_Value", p)
        IN  [Total_Jual_Netto |-> jual,
             Total_Perolehan |-> sum(df, "Total_Perolehan", p),
             Profit_Value |-> profit,
             Profit_Pct |-> FMul(FDiv(profit, jual), FInt(100))]]

\* [m for m in detail_df['Bulan Transaksi'].unique() if m != 'NaT']
ValidMonths(df) == {df[i].Bulan_Transaksi : i \in DOMAIN df} \ {"NaT"}

MonthView(r) ==
    [Project_Name |-> r.Project_Name,
     Total_Jual_Netto |-> r.Total_Jual_Netto,
     Total_Perolehan |-> r.Total_Perolehan,
     Profit_Value |-> r.Profit_Value,
     Profit_Pct |-> r.Profit_Pct]

FilterMonth(df, b) ==
    LET sel == SelectSeq(df, LAMBDA r: r.Bulan_Transaksi = b)
    IN  [i \in DOMAIN sel |-> MonthView(sel[i])]

----------------------------------------------------------------------------
\* The sheets of the data file

SeqUpTo(S, n) == UNION {[1..k -> S] : k \in 0..n}

X == Text("X")
Y == Text("Y")

RegCells == {Empty, Text("Januari"), Text("2024-01-01"), Ts(720), Ts(2160), Ts(2928)}
ClosedCells == {Empty, Text("Januari"), Ts(2892), Ts(2916)}
Clocks == {2892, 2916}

DetailRow(reg, closed, project, product, qty, price) ==
    [Date_Register |-> reg, Bulan_Closed |-> closed, Project_Name |-> project,
     Type_Product |-> product, QTY |-> FInt(qty), Harga_Satuan |-> FInt(price)]

OrderRow(name, cost) == [Nama_Produk |-> name, Harga_Perolehan |-> cost]

\* Project sheets that vary the dates.
AgingRows == {DetailRow(reg, closed, "P1", X, 2, 111) :
                reg \in RegCells, closed \in ClosedCells}

\* Project sheets that vary the product, cost sheets that vary everything.
LookupRows == {DetailRow(Ts(0), Empty, "P1", product, 2, 111) :
                product \in {X, Y, Empty}}
OrderRows == {OrderRow(name, cost) :
                name \in {X, Y, Empty}, cost \in {NaN, FInt(50), FInt(70)}}

\* Project sheets that vary the money columns.
ProfitRows == {DetailRow(Ts(0), Empty, project, product, qty, price) :
                project \in {"P1", "P2"}, product \in {X, Y},
                qty \in {1, 2}, price \in {0, 111}}
ProfitOrders == {<<>>, <<OrderRow(X, FInt(50))>>, <<OrderRow(X, FInt(0))>>}

Unset ==
    /\ pc = "load"
    /\ detail_df = <<>>
    /\ order_df = <<>>
    /\ aging_summary = <<>>
    /\ profit_summary = <<>>
    /\ valid_months = {}
    /\ bulan_terpilih = ""
    /\ df_bulan = <<>>
    /\ messages = {}
    /\ exported = <<>>

InitMissing ==
    /\ file_exists = FALSE
    /\ sheet_detail = <<>>
    /\ sheet_order = <<>>
    /\ clock = 2892

InitAging ==
    /\ file_exists = TRUE
    /\ sheet_detail \in SeqUpTo(AgingRows, MaxRows)
    /\ sheet_order = <<OrderRow(X, FInt(50))>>
    /\ clock \in Clocks

InitLookup ==
    /\ file_exists = TRUE
    /\ sheet_detail \in SeqUpTo(LookupRows, MaxRows)
    /\ sheet_order \in SeqUpTo(OrderRows, MaxOrders)
    /\ clock = 2892

InitProfit ==
    /\ file_exists = TRUE
    /\ sheet_detail \in SeqUpTo(ProfitRows, MaxRows)
    /\ sheet_order \in ProfitOrders
    /\ clock = 2892

Init == Unset /\ (InitMissing \/ InitAging \/ InitLookup \/ InitProfit)

----------------------------------------------------------------------------
\* The script, top to bottom

\* load_data(), file present
LoadData ==
    /\ pc = "load"
    /\ file_exists
    /\ detail_df' = sheet_detail
    /\ order_df' = sheet_order
    /\ pc' = "aging"
    /\ UNCHANGED <<file_exists, sheet_detail, sheet_order, clock, aging_summary,
                   profit_summary, valid_months, bulan_terpilih, df_bulan,
                   messages, exported>>

\* load_data(), file absent: st.error and st.stop
LoadMissing ==
    /\ pc = "load"
    /\ ~file_exists
    /\ messages' = messages \cup {"File challenge.xlsx tidak ditemukan."}
    /\ pc' = "stopped"
    /\ UNCHANGED <<file_exists, sheet_detail, sheet_order, clock, detail_df,
                   order_df, aging_summary, profit_summary, valid_months,
                   bulan_terpilih, df_bulan, exported>>

\* detail_df = hitung_aging(detail_df)
HitungAging ==
    /\ pc = "aging"
    /\ detail_df' = hitung_aging(detail_df, Ts(clock))
    /\ pc' = "profit"
    /\ UNCHANGED <<file_exists, sheet_detail, sheet_order, clock, order_df,
                   aging_summary, profit_summary, valid_months, bulan_terpilih,
                   df_bulan, messages, exported>>

\* detail_df = hitung_profit(detail_df, order_df)
HitungProfit ==
    /\ pc = "profit"
    /\ detail_df' = hitung_profit(detail_df, order_df)
    /\ pc' = "aging_summary"
    /\ UNCHANGED <<file_exists, sheet_detail, sheet_order, clock, order_df,
                   aging_summary, profit_summary, valid_months, bulan_terpilih,
                   df_bulan, messages, exported>>

AgingSummary ==
    /\ pc = "aging_summary"
    /\ aging_summary' = value_counts(detail_df)
    /\ pc' = "profit_summary"
    /\ UNCHANGED <<file_exists, sheet_detail, sheet_order, clock, detail_df,
                   order_df, profit_summary, valid_months, bulan_terpilih,
                   df_bulan, messages, exported>>

ProfitSummary ==
    /\ pc = "profit_summary"
    /\ profit_summary' = groupby_sum(detail_df)
    /\ pc' = "filter"
    /\ UNCHANGED <<file_exists, sheet_detail, sheet_order, clock, detail_df,
                   order_df, aging_summary, valid_months, bulan_terpilih,
                   df_bulan, messages, exported>>

\* The month filter with a month chosen in the selectbox
FilterBulan ==
    /\ pc = "filter"
    /\ ValidMonths(detail_df) # {}
    /\ valid_months' = ValidMonths(detail_df)
    /\ \E b \in ValidMonths(detail_df) :
        /\ bulan_terpilih' = b
        /\ df_bulan' = FilterMonth(detail_df, b)
    /\ pc' = "export"
    /\ UNCHANGED <<file_exists, sheet_detail, sheet_order, clock, detail_df,
                   order_df, aging_summary, profit_summary, messages, exported>>

\* The month filter without any valid month: st.warning
FilterEmpty ==
    /\ pc = "filter"
    /\ ValidMonths(detail_df) = {}
    /\ valid_months' = {}
    /\ messages' = messages \cup {"Tidak ada bulan transaksi valid."}
    /\ pc' = "export"
    /\ UNCHANGED <<file_exists, sheet_detail, sheet_order, clock, detail_df,
                   order_df, aging_summary, profit_summary, bulan_terpilih,
                   df_bulan, exported>>

\* The export button pressed: export_excel(detail_df)
ExportExcel ==
    /\ pc = "export"
    /\ exported' = detail_df
    /\ pc' = "done"
    /\ UNCHANGED <<file_exists, sheet_detail, sheet_order, clock, detail_df,
                   order_df, aging_summary, profit_summary, valid_months,
                   bulan_terpilih, df_bulan, messages>>

\* The export button not pressed: the script ends
Finish ==
    /\ pc = "export"
    /\ pc' = "done"
    /\ UNCHANGED <<file_exists, sheet_detail, sheet_order, clock, detail_df,
                   order_df, aging_summary, profit_summary, valid_months,
                   bulan_terpilih, df_bulan, messages, exported>>

Next ==
    \/ LoadData
    \/ LoadMissing
    \/ HitungAging
    \/ HitungProfit
    \/ AgingSummary
    \/ ProfitSummary
    \/ FilterBulan
    \/ FilterEmpty
    \/ ExportExcel
    \/ Finish

Spec == Init /\ [][Next]_vars

----------------------------------------------------------------------------
\* Properties

AfterProfit == pc \in {"aging_summary", "profit_summary", "filter", "export", "done"}
AfterAging == pc = "profit" \/ AfterProfit
AfterSummary == pc \in {"filter", "export", "done"}

\* A date cell of the sheet that holds a date, and its hour count.
Parseable(c) == c.k = "ts" \/ c = Text("2024-01-01")
Hours(c) == IF c.k = "ts" THEN c.v ELSE 0

WholeDays(days, hours) ==
    /\ IsNum(days)
    /\ days.d = 1
    /\ Abs(days.n * 24 - hours) < 24

\* C1: for every record with a parseable registration date, Aging Days is
\* the whole-day count of (closing date - registration date) when the
\* closing date is present, whatever the clock reads, and of
\* (today - registration date) when the closing date is empty or unparseable.
C1_AgingEndPoint ==
    AfterAging =>
        /\ Len(detail_df) = Len(sheet_detail)
        /\ \A i \in DOMAIN sheet_detail :
            LET reg == sheet_detail[i].Date_Register
                closed == sheet_detail[i].Bulan_Closed
                days == detail_df[i].Aging_Days
            IN  Parseable(reg) =>
                    IF Parseable(closed)
                    THEN /\ WholeDays(days, Hours(closed) - Hours(reg))
                         /\ \A c \in Clocks :
                              days = AgingDays(detail_df[i].Date_Register,
                                               detail_df[i].Bulan_Closed, Ts(c))
                    ELSE WholeDays(days, clock - Hours(reg))

C1_Witness ==
    /\ pc = "profit"
    /\ \E i, j \in DOMAIN sheet_detail :
        /\ Parseable(sheet_detail[i].Date_Register)
        /\ Parseable(sheet_detail[i].Bulan_Closed)
        /\ detail_df[i].Aging_Days # DiffDays(Ts(clock), detail_df[i].Date_Register)
        /\ Parseable(sheet_detail[j].Date_Register)
        /\ sheet_detail[j].Bulan_Closed = Text("Januari")
        /\ IsNum(detail_df[j].Aging_Days)

\* C2: the aging category is decided by Aging Days alone: Unknown exactly
\* when Aging Days is undefined (the registration date is missing or
\* unparseable), "<=30 Hari" for every value up to and including 30 (the
\* negative ones too), "31-90 Hari" from 31 to 90, ">90 Hari" from 91 on.
C2_CategoryBuckets ==
    AfterAging =>
        \A i \in DOMAIN detail_df :
            LET days == detail_df[i].Aging_Days
                cat == detail_df[i].Aging_Category
            IN  /\ cat \in {"Unknown", "<=30 Hari", "31-90 Hari", ">90 Hari"}
                /\ isna(days) <=> ~dt_notna(detail_df[i].Date_Register)
                /\ cat = "Unknown" <=> isna(days)
                /\ cat = "<=30 Hari" <=> (IsNum(days) /\ days.n <= 30)
                /\ cat = "31-90 Hari" <=> (IsNum(days) /\ days.n \in 31..90)
                /\ cat = ">90 Hari" <=> (IsNum(days) /\ days.n >= 91)

C2_Witness ==
    /\ AfterAging
    /\ \E i, j \in DOMAIN detail_df :
        /\ detail_df[i].Aging_Days = FInt(30)
        /\ detail_df[i].Aging_Category = "<=30 Hari"
        /\ detail_df[j].Aging_Days = FInt(31)
        /\ detail_df[j].Aging_Category = "31-90 Hari"

\* C10 as stated: Aging Days is the elapsed time truncated toward zero, so
\* minus 12 hours gives 0 and minus 36 hours gives -1.
C10_TruncatesTowardZero ==
    AfterAging =>
        \A i \in DOMAIN detail_df :
            LET reg == detail_df[i].Date_Register
                closed == detail_df[i].Bulan_Closed
                h == (IF dt_notna(closed) THEN closed.v ELSE clock) - reg.v
            IN  dt_notna(reg) =>
                    detail_df[i].Aging_Days =
                        FInt(IF h >= 0 THEN h \div 24 ELSE -((-h) \div 24))

\* C10 amended: Aging Days is the floor of the elapsed time in days, in the
\* closed and in the open case; a negative difference is kept, rounded down
\* (minus 12 hours gives -1, minus 36 hours gives -2).
C10_FloorsToWholeDays ==
    AfterAging =>
        \A i \in DOMAIN detail_df :
            LET reg == detail_df[i].Date_Register
                closed == detail_df[i].Bulan_Closed
                h == (IF dt_notna(closed) THEN closed.v ELSE clock) - reg.v
                days == detail_df[i].Aging_Days
            IN  dt_notna(reg) =>
                    /\ IsNum(days) /\ days.d = 1
                    /\ days.n * 24 <= h
                    /\ h < days.n * 24 + 24
                    /\ (h = -12 => days.n = -1)
                    /\ (h = -36 => days.n = -2)

C10_Witness ==
    /\ AfterAging
    /\ \E i, j \in DOMAIN detail_df :
        /\ dt_notna(detail_df[i].Date_Register)
        /\ dt_notna(detail_df[i].Bulan_Closed)
        /\ detail_df[i].Bulan_Closed.v - detail_df[i].Date_Register.v = -12
        /\ dt_notna(detail_df[j].Date_Register)
        /\ ~dt_notna(detail_df[j].Bulan_Closed)
        /\ clock - detail_df[j].Date_Register.v = -36

\* The input columns of an output row.
Inputs(r) ==
    [Project_Name |-> r.Project_Name, Type_Product |-> r.Type_Product,
     QTY |-> r.QTY, Harga_Satuan |-> r.Harga_Satuan]

\* The rows of the cost sheet that have both fields and name product p.
Complete(p) ==
    {j \in DOMAIN sheet_order :
        /\ sheet_order[j].Nama_Produk = p
        /\ sheet_order[j].Nama_Produk.k = "str"
        /\ sheet_order[j].Harga_Perolehan.k # "nan"}

Least(S) == CHOOSE j \in S : \A k \in S : j <= k

\* C3: the output of hitung_profit has one row for each project record, in
\* the input's number and order, whatever the cost sheet holds.
C3_LeftJoinComplete ==
    AfterProfit =>
        /\ Len(detail_df) = Len(sheet_detail)
        /\ \A i \in DOMAIN sheet_detail :
            Inputs(detail_df[i]) = Inputs(sheet_detail[i])

C3_Witness ==
    /\ AfterProfit
    /\ \E j, k \in DOMAIN sheet_order :
        /\ j < k
        /\ {j, k} \subseteq Complete(X)
    /\ \E i, u \in DOMAIN detail_df :
        /\ detail_df[i].Type_Product = X
        /\ notna(detail_df[i].Harga_Perolehan)
        /\ detail_df[u].Type_Product = Y
        /\ isna(detail_df[u].Harga_Perolehan)

\* C4: the cost table joined against has no missing field and no product
\* name twice, and the cost a record gets is that of the first entry of its
\* product among the entries that have both fields (none: undefined).
C4_FirstCompleteCostWins ==
    AfterProfit =>
        /\ \A a, b \in DOMAIN CostLookup(order_df) :
            /\ CostLookup(order_df)[a].Nama_Produk.k = "str"
            /\ CostLookup(order_df)[a].Harga_Perolehan.k # "nan"
            /\ a # b => CostLookup(order_df)[a].Nama_Produk #
                        CostLookup(order_df)[b].Nama_Produk
        /\ \A i \in DOMAIN detail_df :
            LET entries == Complete(detail_df[i].Type_Product)
            IN  IF entries = {} THEN isna(detail_df[i].Harga_Perolehan)
                ELSE detail_df[i].Harga_Perolehan =
                        sheet_order[Least(entries)].Harga_Perolehan

C4_Witness ==
    /\ AfterProfit
    /\ \E j, k \in DOMAIN sheet_order :
        /\ j < k
        /\ sheet_order[j].Nama_Produk = X
        /\ isna(sheet_order[j].Harga_Perolehan)
        /\ k \in Complete(X)
        /\ \E i \in DOMAIN detail_df :
            /\ detail_df[i].Type_Product = X
            /\ detail_df[i].Harga_Perolehan = sheet_order[k].Harga_Perolehan

\* C5: for every record with a cost match, in exact arithmetic,
\* Harga Netto = Harga Satuan / 1.11, Total Jual Netto = Harga Netto * QTY,
\* Total Perolehan = Harga Perolehan * QTY, Profit Value = Total Jual Netto -
\* Total Perolehan and Profit % = Profit Value / Total Jual Netto * 100;
\* price 111, quantity 2, cost 50 give 100, 200, 100, 100 and 50.
C5_ProfitIdentity ==
    AfterProfit =>
        \A i \in DOMAIN detail_df :
            LET r == detail_df[i]
                hn == r.Harga_Netto
                tj == r.Total_Jual_Netto
                tp == r.Total_Perolehan
                pv == r.Profit_Value
                pp == r.Profit_Pct
            IN  notna(r.Harga_Perolehan) =>
                    /\ IsNum(hn) /\ IsNum(tj) /\ IsNum(tp) /\ IsNum(pv)
                    /\ hn.n * 111 = r.Harga_Satuan.n * 100 * hn.d
                    /\ tj.n * hn.d = hn.n * r.QTY.n * tj.d
                    /\ tp.n = r.Harga_Perolehan.n * r.QTY.n * tp.d
                    /\ pv.n * tj.d * tp.d = (tj.n * tp.d - tp.n * tj.d) * pv.d
                    /\ tj.n # 0 =>
                        /\ IsNum(pp)
                        /\ pp.n * tj.n * pv.d = 100 * pv.n * tj.d * pp.d
                    /\ (/\ r.Harga_Satuan = FInt(111)
                        /\ r.QTY = FInt(2)
                        /\ r.Harga_Perolehan = FInt(50)) =>
                            /\ hn = FInt(100)
                            /\ tj = FInt(200)
                            /\ tp = FInt(100)
                            /\ pv = FInt(100)
                            /\ pp = FInt(50)

C5_Witness ==
    /\ AfterProfit
    /\ \E i \in DOMAIN detail_df :
        /\ detail_df[i].Harga_Satuan = FInt(111)
        /\ detail_df[i].QTY = FInt(2)
        /\ detail_df[i].Harga_Perolehan = FInt(50)
        /\ detail_df[i].Profit_Pct = FInt(50)

\* C6: every record with Harga Satuan 0 has Total Jual Netto 0 and an
\* undefined (NaN) Profit %, with or without a cost match.
C6_ZeroSalePctUndefined ==
    AfterProfit =>
        \A i \in DOMAIN detail_df :
            detail_df[i].Harga_Satuan = FInt(0) =>
                /\ detail_df[i].Total_Jual_Netto = FInt(0)
                /\ isna(detail_df[i].Profit_Pct)

\* The product of a record is absent from the cost table.
Unmatched(r) == Complete(r.Type_Product) = {}

MonthOf2024(h) ==
    CASE h < 31 * 24 -> "2024-01"
      [] h < 60 * 24 -> "2024-02"
      [] h < 91 * 24 -> "2024-03"
      [] h < 121 * 24 -> "2024-04"
      [] OTHER -> "2024-05"

\* C8: Bulan Transaksi is the registration date's "YYYY-MM" when the date is
\* parseable, and otherwise a missing-value marker, never the string "NaT".
C8_MonthNeverNaTString ==
    AfterProfit =>
        \A i \in DOMAIN detail_df :
            IF dt_notna(detail_df[i].Date_Register)
            THEN detail_df[i].Bulan_Transaksi =
                    MonthOf2024(detail_df[i].Date_Register.v)
            ELSE detail_df[i].Bulan_Transaksi # "NaT"

\* C9: in the profit summary a record without a cost match adds to none of
\* its project's sums, so each project's summed Profit Value is its summed
\* Total Jual Netto minus its summed Total Perolehan.
C9_SummaryLeavesOutUndefined ==
    AfterSummary =>
        \A p \in DOMAIN profit_summary :
            LET matched == SelectSeq(detail_df, LAMBDA r: notna(r.Profit_Value))
            IN  /\ profit_summary[p].Total_Jual_Netto =
                    sum(matched, "Total_Jual_Netto", p)
                /\ profit_summary[p].Total_Perolehan =
                    sum(matched, "Total_Perolehan", p)
                /\ profit_summary[p].Profit_Value =
                    sum(matched, "Profit_Value", p)
                /\ profit_summary[p].Profit_Value =
                    FSub(profit_summary[p].Total_Jual_Netto,
                         profit_summary[p].Total_Perolehan)

====
